---- MODULE Spec2Model ----
(***************************************************************************)
(* Model of the qasmparser facade (src/parser/parser.go).                  *)
(*                                                                         *)
(* A source text is a sequence of one-character tokens:                    *)
(*   "s"  a token of a well-formed statement,                              *)
(*   "x"  a token the grammar cannot accept (a syntactic problem),         *)
(*   "#"  a character no lexer rule matches (a lexical problem),           *)
(*   "\r", "\n"  the line terminators preprocessContent normalises,        *)
(*   "c"  a comment, line or block (only in the texts of SpecComments).    *)
(*                                                                         *)
(* parser.go ships createLexer, createParser and parseProgram as           *)
(* placeholders that panic; their comments name the generated ANTLR        *)
(* recognizers that `task generate` produces and that replace them.  The   *)
(* variable build records which of the two the program was built with.     *)
(* ParseOptions structs live on a heap of addresses because the Parser     *)
(* keeps the caller's pointer, not a copy.                                 *)
(*                                                                         *)
(* The AST node types, Walk and the visitors (ast.go, visitor.go) and      *)
(* ParseError (errors.go) are modelled from the specification and from     *)
(* what the package's tests observe of them.                               *)
(***************************************************************************)
EXTENDS Integers, Sequences, FiniteSets, TLC

VARIABLES
    build,      \* "placeholder" (parser.go as written) or "generated"
    heap,       \* heap[a]: the ParseOptions struct at address a
    parsers,    \* parsers[p].options: the address in Parser p's options field;
                \* parsers[p].defaults: p was constructed with DefaultParseOptions()
    held,       \* addresses of the ParseOptions pointers the caller holds
    calls,      \* calls[c]: the state of the facade call running in slot c
    walk,       \* the Walk call in progress over an AST, and what it has invoked
    shown,      \* the ParseError last rendered by Error(), with the text it gave
    report,     \* the ParseResult last inspected, with what its methods gave
    listener,   \* an ErrorListener: its errors, and the SyntaxError calls made on it
    scan,       \* the recognizers of a call at work: lexer and parser cursors
    cli         \* the run of one CLI command

vars == <<build, heap, parsers, held, calls, walk, shown, report, listener, scan, cli>>

\* ---------------------------------------------------------------- bounds
MaxLen == 3          \* longest source text of the facade specification
MaxCalls == 2        \* call slots of the concurrent specification
NParsers == 2        \* Parsers of the configuration specification
NOpts == 2           \* ParseOptions structs of the configuration specification
MaxStatements == 2   \* statements of a Program of the traversal specification
MaxLine == 2         \* lines of the positions of the rendered ParseErrors
MaxColumn == 12      \* columns of the positions of the rendered ParseErrors
MaxReported == 2     \* diagnostics of an inspected ParseResult
MaxSyntaxErrors == 3 \* SyntaxError calls on one ErrorListener
MaxScanLen == 2      \* longest source text of the step-by-step specification
MaxFiles == 2        \* files named on one command line
MaxRecorded == 2     \* a mockVisitor that recorded this many nodes is not walked again

\* ------------------------------------------------------------- constants
DefaultMaxErrors == 100

Chars == {"s", "x", "#", "\r", "\n"}

TextsUpTo(n) == UNION {[1..k -> Chars] : k \in 0..n}

ReadErrors == {"EIO", "ENOENT"}

\* --------------------------------------------------------- ParseOptions
OptionsOf(s, c, r, m) ==
    [StrictMode |-> s, IncludeComments |-> c, ErrorRecovery |-> r, MaxErrors |-> m]

DefaultParseOptions == OptionsOf(FALSE, TRUE, TRUE, DefaultMaxErrors)

MaxErrorsValues == {-1, 0, 1, 2}

OptionValues ==
    {DefaultParseOptions} \cup
    {OptionsOf(s, c, r, m) : s \in BOOLEAN, c \in BOOLEAN, r \in BOOLEAN,
                             m \in MaxErrorsValues}

\* ------------------------------------------------------- string helpers
RECURSIVE ReplaceAll(_, _, _)
ReplaceAll(s, old, new) ==
    IF Len(s) < Len(old) THEN s
    ELSE IF SubSeq(s, 1, Len(old)) = old
         THEN new \o ReplaceAll(SubSeq(s, Len(old) + 1, Len(s)), old, new)
         ELSE <<Head(s)>> \o ReplaceAll(Tail(s), old, new)

HasSuffix(s, suffix) ==
    /\ Len(s) >= Len(suffix)
    /\ SubSeq(s, Len(s) - Len(suffix) + 1, Len(s)) = suffix

\* Mutant: the two replacements run in the other order.
preprocessContentLoneCRFirst(content) ==
    LET a == ReplaceAll(content, <<"\r">>, <<"\n">>)
        b == ReplaceAll(a, <<"\r", "\n">>, <<"\n">>)
    IN  IF ~HasSuffix(b, <<"\n">>) THEN b \o <<"\n">> ELSE b

\* Mutant: the line endings are normalised but no final newline is ensured.
preprocessContentNoFinalNewline(content) ==
    LET a == ReplaceAll(content, <<"\r", "\n">>, <<"\n">>)
    IN  ReplaceAll(a, <<"\r">>, <<"\n">>)

preprocessContent(content) ==
    LET a == ReplaceAll(content, <<"\r", "\n">>, <<"\n">>)
        b == ReplaceAll(a, <<"\r">>, <<"\n">>)
    IN  IF ~HasSuffix(b, <<"\n">>) THEN b \o <<"\n">> ELSE b

\* ---------------------------------------------------------- positions
LineOf(content, i) == 1 + Cardinality({j \in 1..(i - 1) : content[j] = "\n"})

ColumnOf(content, i) ==
    LET nls == {j \in 1..(i - 1) : content[j] = "\n"}
        last == IF nls = {} THEN 0 ELSE CHOOSE j \in nls : \A k \in nls : k <= j
    IN  i - last

\* -------------------------------------------------------- ErrorListener
NewErrorListener == <<>>

\* Mutant: the listener keeps the latest diagnostic only.
SyntaxErrorKeepLatest(errors, line, column, msg) ==
    <<[Type |-> "syntax", Line |-> line, Column |-> column, Message |-> msg]>>

SyntaxError(errors, line, column, msg) ==
    Append(errors, [Type |-> "syntax", Line |-> line, Column |-> column,
                    Message |-> msg])

GetErrors(errors) == errors

\* Mutant: one diagnostic alone does not count.
HasErrorsSeveral(result) == Len(result.Errors) > 1

HasErrors(result) == Len(result.Errors) > 0

\* ---------------------------------------------------------- recognizers
\* The problems a recognizer meets in content, in the order it meets them:
\* one per occurrence of ch, at that occurrence's line and column.
Problems(content, ch) ==
    LET idx == {i \in 1..Len(content) : content[i] = ch}
        F[n \in 0..Len(content)] ==
            IF n = 0 THEN <<>>
            ELSE IF n \in idx
                 THEN Append(F[n - 1], [Line |-> LineOf(content, n),
                                        Column |-> ColumnOf(content, n)])
                 ELSE F[n - 1]
    IN  F[Len(content)]

\* Every problem is notified to the listener, when one is attached.
RECURSIVE Notify(_, _, _)
Notify(errors, problems, msg) ==
    IF problems = <<>> THEN errors
    ELSE Notify(SyntaxError(errors, Head(problems).Line, Head(problems).Column, msg),
                Tail(problems), msg)

LexerMessage == "token recognition error"
ParserMessage == "mismatched input"

LexerReports(attached, content) ==
    IF attached THEN Notify(NewErrorListener, Problems(content, "#"), LexerMessage)
    ELSE NewErrorListener

ParserReports(attached, content) ==
    IF attached THEN Notify(NewErrorListener, Problems(content, "x"), ParserMessage)
    ELSE NewErrorListener

\* --------------------------------------------------- ParseWithErrors parts
AttachListener(options) == ~options.ErrorRecovery

CollectErrors(lexerErrors, parserErrors) ==
    (<<>> \o GetErrors(lexerErrors)) \o GetErrors(parserErrors)

\* Mutant: the cap keeps the last maxErrors diagnostics instead of the first.
LimitErrorsKeepLast(allErrors, maxErrors) ==
    IF maxErrors > 0 /\ Len(allErrors) > maxErrors
    THEN SubSeq(allErrors, Len(allErrors) - maxErrors + 1, Len(allErrors))
    ELSE allErrors

\* Mutant: the cap is applied without the maxErrors > 0 test.
LimitErrorsNoSentinel(allErrors, maxErrors) ==
    IF Len(allErrors) > maxErrors
    THEN SubSeq(allErrors, 1, IF maxErrors > 0 THEN maxErrors ELSE 0)
    ELSE allErrors

LimitErrors(allErrors, maxErrors) ==
    IF maxErrors > 0 /\ Len(allErrors) > maxErrors
    THEN SubSeq(allErrors, 1, maxErrors)
    ELSE allErrors

\* Mutant: a Program that was given no version statement gets a version.
convertToASTDefaultVersion(content) ==
    [Position   |-> [Line |-> 1, Column |-> 1, Offset |-> 0],
     EndPos     |-> [Line |-> 1, Column |-> Len(content), Offset |-> Len(content)],
     Version    |-> <<"3.0">>,
     Statements |-> <<>>,
     Comments   |-> <<>>]

convertToAST(content) ==
    [Position   |-> [Line |-> 1, Column |-> 1, Offset |-> 0],
     EndPos     |-> [Line |-> 1, Column |-> Len(content), Offset |-> Len(content)],
     Version    |-> <<>>,
     Statements |-> <<>>,
     Comments   |-> <<>>]

\* Written but called from nowhere: convertToAST sets Comments itself.  A nil
\* slice and an empty one are both the empty sequence.
extractComments(options, tokenStream) ==
    IF ~options.IncludeComments THEN <<>> ELSE <<>>

\* ParseWithErrors run start to end on its own, with the recognizers present.
ParseWithErrorsResult(options, text) ==
    LET content == preprocessContent(text)
        lexerErrors == LexerReports(AttachListener(options), content)
        parserErrors == ParserReports(AttachListener(options), content)
        allErrors == LimitErrors(CollectErrors(lexerErrors, parserErrors),
                                 options.MaxErrors)
    IN  [Program |-> convertToAST(content), Errors |-> allErrors]

\* ------------------------------------------------------------ returns
\* A Go error value is a one-field record, so a *ParseError and an I/O
\* error are never equal; a nil pointer or nil error is the empty sequence.
ParseErrorValue(e) == [ParseError |-> e]

IOErrorValue(e) == [IOError |-> e]

ParseResultOf(program, errors) == [Program |-> program, Errors |-> errors]

ParseWithErrorsReturn(result) ==
    [Program |-> <<result.Program>>, Errors |-> result.Errors, Err |-> <<>>]

\* Mutant: ParseString hands back the last diagnostic instead of the first.
ParseStringReturnLast(result) ==
    IF HasErrors(result)
    THEN [Program |-> <<result.Program>>, Errors |-> <<>>,
          Err |-> <<ParseErrorValue(result.Errors[Len(result.Errors)])>>]
    ELSE [Program |-> <<result.Program>>, Errors |-> <<>>, Err |-> <<>>]

ParseStringReturn(result) ==
    IF HasErrors(result)
    THEN [Program |-> <<result.Program>>, Errors |-> <<>>,
          Err |-> <<ParseErrorValue(result.Errors[1])>>]
    ELSE [Program |-> <<result.Program>>, Errors |-> <<>>, Err |-> <<>>]

ValidateReturn(result) ==
    IF HasErrors(result)
    THEN [Program |-> <<>>, Errors |-> <<>>,
          Err |-> <<ParseErrorValue(result.Errors[1])>>]
    ELSE [Program |-> <<>>, Errors |-> <<>>, Err |-> <<>>]

\* Mutant: a failed read is reported as a syntax diagnostic.
ReadFailureAsParseError(err) ==
    [Program |-> <<>>, Errors |-> <<>>,
     Err |-> <<ParseErrorValue([Type |-> "syntax", Line |-> 0, Column |-> 0,
                                Message |-> err])>>]

ReadFailureReturn(err) ==
    [Program |-> <<>>, Errors |-> <<>>, Err |-> <<IOErrorValue(err)>>]

FacadeReturn(op, result) ==
    IF op = "ParseWithErrors" THEN ParseWithErrorsReturn(result)
    ELSE IF op = "Validate" THEN ValidateReturn(result)
    ELSE ParseStringReturn(result)

\* ---------------------------------------------------------- call state
NoReturn == [Program |-> <<>>, Errors |-> <<>>, Err |-> <<>>]

IdleCall ==
    [pc |-> "idle", op |-> "none", parser |-> 0, input |-> <<>>, readErr |-> "",
     content |-> <<>>, started |-> FALSE,
     lexerOn |-> FALSE, parserOn |-> FALSE,
     lexerErrors |-> <<>>, parserErrors |-> <<>>, allErrors |-> <<>>,
     tested |-> 0, ctxErr |-> "", ctx |-> "", ret |-> NoReturn]

\* A slot holds one call, from its entry until the caller drops its outcome.
Free(c) == calls[c].pc = "idle"

Ended(c) == calls[c].pc \in {"done", "panicked"}

Options(p) == heap[parsers[p].options]

\* Entry into ParseWithErrors: the content is preprocessed, nothing else yet.
Enter(c, p, op, text) ==
    calls' = [calls EXCEPT ![c] =
                 [IdleCall EXCEPT !.pc = "createLexer", !.op = op, !.parser = p,
                                  !.input = text, !.started = TRUE,
                                  !.content = preprocessContent(text)]]

Panic(c) == calls' = [calls EXCEPT ![c].pc = "panicked"]

\* ------------------------------------------------------- construction
AllocOptions(v) ==
    /\ heap' = Append(heap, v)
    /\ held' = held \cup {Len(heap) + 1}
    /\ UNCHANGED <<build, parsers, calls, walk, shown, report, listener, scan, cli>>

ParserOf(opts, defaults) == [options |-> opts, defaults |-> defaults]

NewParser ==
    /\ heap' = Append(heap, DefaultParseOptions)
    /\ parsers' = Append(parsers, ParserOf(Len(heap) + 1, TRUE))
    /\ UNCHANGED <<build, held, calls, walk, shown, report, listener, scan, cli>>

\* Mutant: the Parser keeps a copy of the caller's struct, not the pointer.
NewParserWithOptionsCopy(opts) ==
    /\ IF opts = 0
       THEN /\ heap' = Append(heap, DefaultParseOptions)
            /\ parsers' = Append(parsers, ParserOf(Len(heap) + 1, TRUE))
       ELSE /\ heap' = Append(heap, heap[opts])
            /\ parsers' = Append(parsers, ParserOf(Len(heap) + 1, FALSE))
    /\ UNCHANGED <<build, held, calls, walk, shown, report, listener, scan, cli>>

\* opts = 0 is the nil pointer.
NewParserWithOptions(opts) ==
    /\ IF opts = 0
       THEN /\ heap' = Append(heap, DefaultParseOptions)
            /\ parsers' = Append(parsers, ParserOf(Len(heap) + 1, TRUE))
       ELSE /\ parsers' = Append(parsers, ParserOf(opts, FALSE))
            /\ UNCHANGED heap
    /\ UNCHANGED <<build, held, calls, walk, shown, report, listener, scan, cli>>

\* The caller receives the Parser's own pointer.
GetOptions(p) ==
    /\ held' = held \cup {parsers[p].options}
    /\ UNCHANGED <<build, heap, parsers, calls, walk, shown, report, listener, scan, cli>>

\* Mutant: SetOptions stores whatever it is given, nil included.
SetOptionsAcceptsNil(p, opts) ==
    /\ parsers' = [parsers EXCEPT ![p].options = opts]
    /\ UNCHANGED <<build, heap, held, calls, walk, shown, report, listener, scan, cli>>

SetOptions(p, opts) ==
    /\ IF opts # 0
       THEN parsers' = [parsers EXCEPT ![p].options = opts]
       ELSE UNCHANGED parsers
    /\ UNCHANGED <<build, heap, held, calls, walk, shown, report, listener, scan, cli>>

\* The caller assigns through a pointer it holds: *opts = value.
WriteOptions(opts, value) ==
    /\ opts \in held
    /\ heap' = [heap EXCEPT ![opts] = value]
    /\ UNCHANGED <<build, parsers, held, calls, walk, shown, report, listener, scan, cli>>

\* -------------------------------------------------------- entry points
ParseWithErrors(c, p, text) ==
    /\ Free(c)
    /\ Enter(c, p, "ParseWithErrors", text)
    /\ UNCHANGED <<build, heap, parsers, held, walk, shown, report, listener, scan, cli>>

ParseString(c, p, text) ==
    /\ Free(c)
    /\ Enter(c, p, "ParseString", text)
    /\ UNCHANGED <<build, heap, parsers, held, walk, shown, report, listener, scan, cli>>

Validate(c, p, text) ==
    /\ Free(c)
    /\ Enter(c, p, "Validate", text)
    /\ UNCHANGED <<build, heap, parsers, held, walk, shown, report, listener, scan, cli>>

\* readErr = "" is a read that succeeds with text.
ReadThenParse(c, p, op, text, readErr) ==
    IF readErr # ""
    THEN calls' = [calls EXCEPT ![c] =
                      [IdleCall EXCEPT !.pc = "done", !.op = op, !.parser = p,
                                       !.input = text, !.readErr = readErr,
                                       !.ret = ReadFailureReturn(readErr)]]
    ELSE Enter(c, p, op, text)

ParseReader(c, p, text, readErr) ==
    /\ Free(c)
    /\ ReadThenParse(c, p, "ParseReader", text, readErr)
    /\ UNCHANGED <<build, heap, parsers, held, walk, shown, report, listener, scan, cli>>

ParseFile(c, p, text, readErr) ==
    /\ Free(c)
    /\ ReadThenParse(c, p, "ParseFile", text, readErr)
    /\ UNCHANGED <<build, heap, parsers, held, walk, shown, report, listener, scan, cli>>

\* What ctx.Err() returns for a context that is done; "" is the nil of a live
\* context.
ContextErrors == {"context canceled", "context deadline exceeded"}

ContextErrorValue(e) == [ContextError |-> e]

ContextReturn(err) ==
    [Program |-> <<>>, Errors |-> <<>>, Err |-> <<ContextErrorValue(err)>>]

\* Mutant: the context is not looked at; the text is always parsed.
ParseWithContextUnchecked(c, p, ctxErr, text) ==
    /\ Free(c)
    /\ calls' = [calls EXCEPT ![c] =
                     [IdleCall EXCEPT !.pc = "createLexer", !.op = "ParseWithContext",
                                      !.parser = p, !.input = text, !.started = TRUE,
                                      !.ctxErr = ctxErr, !.ctx = ctxErr,
                                      !.content = preprocessContent(text)]]
    /\ UNCHANGED <<build, heap, parsers, held, walk, shown, report, listener, scan, cli>>

\* ctxErr is what ctx.Err() returns at line 88; the call record keeps it, and
\* in ctx the state of the context from then on.
ParseWithContext(c, p, ctxErr, text) ==
    /\ Free(c)
    /\ IF ctxErr # ""
       THEN calls' = [calls EXCEPT ![c] =
                         [IdleCall EXCEPT !.pc = "done", !.op = "ParseWithContext",
                                          !.parser = p, !.input = text,
                                          !.ctxErr = ctxErr, !.ctx = ctxErr,
                                          !.ret = ContextReturn(ctxErr)]]
       ELSE calls' = [calls EXCEPT ![c] =
                         [IdleCall EXCEPT !.pc = "createLexer", !.op = "ParseWithContext",
                                          !.parser = p, !.input = text,
                                          !.started = TRUE,
                                          !.content = preprocessContent(text)]]
    /\ UNCHANGED <<build, heap, parsers, held, walk, shown, report, listener, scan, cli>>

\* The caller cancels the context of a running call, or its deadline passes.
Cancel(c, err) ==
    /\ calls[c].op = "ParseWithContext"
    /\ ~Ended(c)
    /\ calls[c].ctx = ""
    /\ calls' = [calls EXCEPT ![c].ctx = err]
    /\ UNCHANGED <<build, heap, parsers, held, walk, shown, report, listener, scan, cli>>

\* The caller drops the outcome of an ended call; the slot is free again.
Release(c) ==
    /\ Ended(c)
    /\ calls' = [calls EXCEPT ![c] = IdleCall]
    /\ UNCHANGED <<build, heap, parsers, held, walk, shown, report, listener, scan, cli>>

\* ------------------------------------------- the steps of ParseWithErrors
\* Mutant: the call switches ErrorRecovery off in the Parser's options to get
\* its listener attached.
StepCreateLexerForcesListener(c) ==
    /\ calls[c].pc = "createLexer"
    /\ IF build = "placeholder"
       THEN Panic(c) /\ UNCHANGED heap
       ELSE /\ heap' = [heap EXCEPT ![parsers[calls[c].parser].options].ErrorRecovery = FALSE]
            /\ calls' = [calls EXCEPT ![c].lexerOn = TRUE, ![c].pc = "createParser"]
    /\ UNCHANGED <<build, parsers, held, walk, shown, report, listener, scan, cli>>

StepCreateLexer(c) ==
    /\ calls[c].pc = "createLexer"
    /\ IF build = "placeholder"
       THEN Panic(c)
       ELSE calls' = [calls EXCEPT
                ![c].lexerOn = AttachListener(Options(calls[c].parser)),
                ![c].pc = "createParser"]
    /\ UNCHANGED <<build, heap, parsers, held, walk, shown, report, listener, scan, cli>>

StepCreateParser(c) ==
    /\ calls[c].pc = "createParser"
    /\ IF build = "placeholder"
       THEN Panic(c)
       ELSE calls' = [calls EXCEPT
                ![c].parserOn = AttachListener(Options(calls[c].parser)),
                ![c].pc = "parseProgram"]
    /\ UNCHANGED <<build, heap, parsers, held, walk, shown, report, listener, scan, cli>>

\* Mutant: the two listeners belong to the Parser instead of the call, so the
\* reports of one call also land in every call that has not collected yet.
StepParseProgramShared(c) ==
    /\ calls[c].pc = "parseProgram"
    /\ build # "placeholder"
    /\ calls' = [d \in DOMAIN calls |->
           IF d = c
           THEN [calls[d] EXCEPT
                    !.lexerErrors = @ \o LexerReports(calls[c].lexerOn, calls[c].content),
                    !.parserErrors = @ \o ParserReports(calls[c].parserOn, calls[c].content),
                    !.pc = "collect"]
           ELSE IF calls[d].pc \in {"createLexer", "createParser", "parseProgram", "collect"}
                   /\ calls[d].parser = calls[c].parser
                THEN [calls[d] EXCEPT
                    !.lexerErrors = @ \o LexerReports(calls[c].lexerOn, calls[c].content),
                    !.parserErrors = @ \o ParserReports(calls[c].parserOn, calls[c].content)]
                ELSE calls[d]]
    /\ UNCHANGED <<build, heap, parsers, held, walk, shown, report, listener, scan, cli>>

StepParseProgram(c) ==
    /\ calls[c].pc = "parseProgram"
    /\ IF build = "placeholder"
       THEN Panic(c)
       ELSE calls' = [calls EXCEPT
                ![c].lexerErrors = LexerReports(calls[c].lexerOn, calls[c].content),
                ![c].parserErrors = ParserReports(calls[c].parserOn, calls[c].content),
                ![c].pc = "collect"]
    /\ UNCHANGED <<build, heap, parsers, held, walk, shown, report, listener, scan, cli>>

StepCollect(c) ==
    /\ calls[c].pc = "collect"
    /\ calls' = [calls EXCEPT
           ![c].allErrors = CollectErrors(calls[c].lexerErrors, calls[c].parserErrors),
           ![c].pc = "limit"]
    /\ UNCHANGED <<build, heap, parsers, held, walk, shown, report, listener, scan, cli>>

\* The cap of lines 147-149 in one step: its three reads of
\* p.options.MaxErrors give one value where nothing writes the options while
\* a call runs.  Where something does (SpecRace), the steps by read below take
\* its place.
StepLimit(c) ==
    /\ calls[c].pc = "limit"
    /\ calls' = [calls EXCEPT
           ![c].allErrors = LimitErrors(calls[c].allErrors,
                                        Options(calls[c].parser).MaxErrors),
           ![c].pc = "convert"]
    /\ UNCHANGED <<build, heap, parsers, held, walk, shown, report, listener, scan, cli>>

StepReturn(c) ==
    /\ calls[c].pc = "convert"
    /\ calls' = [calls EXCEPT
           ![c].ret = FacadeReturn(calls[c].op,
                          ParseResultOf(convertToAST(calls[c].content),
                                        calls[c].allErrors)),
           ![c].pc = "done"]
    /\ UNCHANGED <<build, heap, parsers, held, walk, shown, report, listener, scan, cli>>

\* ParseWithErrors reads p.options anew wherever it uses it.  The steps below
\* split the cap of lines 147-149 at its three reads of p.options.MaxErrors:
\* the left operand of && on line 147, its right operand, and the slice bound
\* of line 148.  tested keeps the value of the first read.
StepLimitPositive(c) ==
    /\ calls[c].pc = "limit"
    /\ LET maxErrors == Options(calls[c].parser).MaxErrors
       IN  calls' = [calls EXCEPT
               ![c].tested = maxErrors,
               ![c].pc = IF maxErrors > 0 THEN "limitLen" ELSE "convert"]
    /\ UNCHANGED <<build, heap, parsers, held, walk, shown, report, listener, scan, cli>>

StepLimitLength(c) ==
    /\ calls[c].pc = "limitLen"
    /\ LET maxErrors == Options(calls[c].parser).MaxErrors
       IN  calls' = [calls EXCEPT
               ![c].pc = IF Len(calls[c].allErrors) > maxErrors
                         THEN "slice" ELSE "convert"]
    /\ UNCHANGED <<build, heap, parsers, held, walk, shown, report, listener, scan, cli>>

ZeroParseError == [Type |-> "", Line |-> 0, Column |-> 0, Message |-> ""]

\* allErrors[:k]: a k below zero or above the capacity panics; a k above the
\* length and within the capacity, which the runtime chose when the list
\* grew, yields the list extended by zero values.
StepLimitSlice(c) ==
    /\ calls[c].pc = "slice"
    /\ LET k == Options(calls[c].parser).MaxErrors
           n == Len(calls[c].allErrors)
       IN  IF k < 0 THEN Panic(c)
           ELSE IF k <= n
                THEN calls' = [calls EXCEPT
                         ![c].allErrors = SubSeq(@, 1, k), ![c].pc = "convert"]
                ELSE \/ Panic(c)
                     \/ calls' = [calls EXCEPT
                            ![c].allErrors = @ \o [i \in 1..(k - n) |-> ZeroParseError],
                            ![c].pc = "convert"]
    /\ UNCHANGED <<build, heap, parsers, held, walk, shown, report, listener, scan, cli>>

\* The steps of call c with every read of p.options a step of its own.
StepByRead(c) ==
    \/ StepCreateLexer(c)
    \/ StepCreateParser(c)
    \/ StepParseProgram(c)
    \/ StepCollect(c)
    \/ StepLimitPositive(c)
    \/ StepLimitLength(c)
    \/ StepLimitSlice(c)
    \/ StepReturn(c)

Step(c) ==
    \/ StepCreateLexer(c)
    \/ StepCreateParser(c)
    \/ StepParseProgram(c)
    \/ StepCollect(c)
    \/ StepLimit(c)
    \/ StepReturn(c)

\* ======================================================================
\* The recognizers step by step (generated lexer and parser)
\* ======================================================================
\* scan.pos is the lexer's cursor into the content, scan.cursor the parser's
\* cursor into the tokens; scan.emitted counts the diagnostics the parser
\* emitted, recorded or not, and scan.recognized the statements it accepted.
IdleScan ==
    [phase |-> "idle", call |-> 0, content |-> <<>>, pos |-> 1, tokens |-> <<>>,
     cursor |-> 1, lexerErrors |-> <<>>, parserErrors |-> <<>>, emitted |-> 0,
     recognized |-> 0]

\* parseProgram starts the recognizers on the content of call c.
ScanBegin(c) ==
    /\ calls[c].pc = "parseProgram"
    /\ build = "generated"
    /\ scan.phase = "idle"
    /\ scan' = [IdleScan EXCEPT !.phase = "lex", !.call = c,
                                !.content = calls[c].content]
    /\ UNCHANGED <<build, heap, parsers, held, calls, walk, shown, report, listener, cli>>

\* Mutant: the lexer reports an unrecognized character and stays on it.
LexStepNoSkip ==
    /\ scan.phase = "lex"
    /\ IF scan.pos > Len(scan.content)
       THEN scan' = [scan EXCEPT !.phase = "parse"]
       ELSE LET ch == scan.content[scan.pos]
            IN  IF ch = "#"
                THEN scan' = [scan EXCEPT
                         !.lexerErrors =
                             IF calls[scan.call].lexerOn
                             THEN SyntaxError(@, LineOf(scan.content, scan.pos),
                                              ColumnOf(scan.content, scan.pos),
                                              LexerMessage)
                             ELSE @]
                ELSE scan' = [scan EXCEPT
                         !.tokens = IF ch = "\n" THEN @
                                    ELSE Append(@, [ch |-> ch, at |-> scan.pos]),
                         !.pos = @ + 1]
    /\ UNCHANGED <<build, heap, parsers, held, calls, walk, shown, report, listener, cli>>

\* The lexer takes the character under its cursor: a token, a line end, or an
\* unrecognized character, which it reports and skips.  At the end of the
\* content it hands over to the parser.
LexStep ==
    /\ scan.phase = "lex"
    /\ IF scan.pos > Len(scan.content)
       THEN scan' = [scan EXCEPT !.phase = "parse"]
       ELSE LET ch == scan.content[scan.pos]
            IN  IF ch = "#"
                THEN scan' = [scan EXCEPT
                         !.lexerErrors =
                             IF calls[scan.call].lexerOn
                             THEN SyntaxError(@, LineOf(scan.content, scan.pos),
                                              ColumnOf(scan.content, scan.pos),
                                              LexerMessage)
                             ELSE @,
                         !.pos = @ + 1]
                ELSE scan' = [scan EXCEPT
                         !.tokens = IF ch = "\n" THEN @
                                    ELSE Append(@, [ch |-> ch, at |-> scan.pos]),
                         !.pos = @ + 1]
    /\ UNCHANGED <<build, heap, parsers, held, calls, walk, shown, report, listener, cli>>

\* The parser takes the token under its cursor: it accepts a well-formed
\* statement, or reports a malformed one and resynchronizes behind it.
ParseStep ==
    /\ scan.phase = "parse"
    /\ IF scan.cursor > Len(scan.tokens)
       THEN scan' = [scan EXCEPT !.phase = "done"]
       ELSE LET tok == scan.tokens[scan.cursor]
            IN  IF tok.ch = "x"
                THEN scan' = [scan EXCEPT
                         !.parserErrors =
                             IF calls[scan.call].parserOn
                             THEN SyntaxError(@, LineOf(scan.content, tok.at),
                                              ColumnOf(scan.content, tok.at),
                                              ParserMessage)
                             ELSE @,
                         !.emitted = @ + 1,
                         !.cursor = @ + 1]
                ELSE scan' = [scan EXCEPT !.recognized = @ + 1,
                                          !.cursor = @ + 1]
    /\ UNCHANGED <<build, heap, parsers, held, calls, walk, shown, report, listener, cli>>

\* parseProgram returns: the call goes on with what its listeners hold.
ScanEnd(c) ==
    /\ scan.phase = "done"
    /\ scan.call = c
    /\ calls' = [calls EXCEPT ![c].lexerErrors = scan.lexerErrors,
                              ![c].parserErrors = scan.parserErrors,
                              ![c].pc = "collect"]
    /\ scan' = IdleScan
    /\ UNCHANGED <<build, heap, parsers, held, walk, shown, report, listener, cli>>

\* The steps of call c with the recognizers run step by step.
StepByStep(c) ==
    \/ StepCreateLexer(c)
    \/ StepCreateParser(c)
    \/ ScanBegin(c)
    \/ LexStep
    \/ ParseStep
    \/ ScanEnd(c)
    \/ StepCollect(c)
    \/ StepLimit(c)
    \/ StepReturn(c)

\* ======================================================================
\* The AST and its traversal (package parser: ast.go, visitor.go)
\* ======================================================================
\* A node is its variant and the children it owns, in source order.  A node of
\* a tree is named by its path: the child indices leading to it from the root.
Leaf(variant) == [variant |-> variant, children |-> <<>>]

Identifier == Leaf("Identifier")

QuantumDeclaration == Leaf("QuantumDeclaration")

\* A gate call owns its qubit operands.
GateCall(operands) ==
    [variant |-> "GateCall", children |-> [i \in 1..operands |-> Identifier]]

\* A measurement owns its source and its target.
Measurement == [variant |-> "Measurement", children |-> <<Identifier, Identifier>>]

StatementNodes == {QuantumDeclaration, GateCall(1), GateCall(2), Measurement}

Program(statements) == [variant |-> "Program", children |-> statements]

Programs ==
    {Program(st) : st \in UNION {[1..k -> StatementNodes] : k \in 0..MaxStatements}}

RECURSIVE NodeAt(_, _)
NodeAt(tree, path) ==
    IF path = <<>> THEN tree
    ELSE NodeAt(tree.children[Head(path)], Tail(path))

RECURSIVE Paths(_)
Paths(tree) ==
    {<<>>} \cup UNION {{<<i>> \o q : q \in Paths(tree.children[i])} :
                          i \in DOMAIN tree.children}

\* Mutant: the children are taken last to first.
OwnedChildrenReversed(tree, path) ==
    LET n == Len(NodeAt(tree, path).children)
    IN  [i \in 1..n |-> path \o <<n + 1 - i>>]

\* The children a node owns, as paths, in source order.
OwnedChildren(tree, path) ==
    [i \in DOMAIN NodeAt(tree, path).children |-> path \o <<i>>]

\* ------------------------------------------------------------- visitors
\* BaseVisitor implements every variant as a no-op; mockVisitor embeds it and
\* overrides VisitProgram and VisitQuantumDeclaration.
Visitors == {"BaseVisitor", "mockVisitor"}

Plain(visitor) == [inner |-> visitor, depthFirst |-> FALSE]

NewDepthFirstVisitor(visitor) == [inner |-> visitor, depthFirst |-> TRUE]

\* Mutant: every node dispatches to VisitProgram.
MethodOfProgram(variant) == "VisitProgram"

\* The visitor method a node of this variant dispatches to.
MethodOf(variant) == "Visit" \o variant

Overridden(visitor, method) ==
    /\ visitor = "mockVisitor"
    /\ method \in {"VisitProgram", "VisitQuantumDeclaration"}

\* What the method returns: nil is <<>>.
Returns(visitor, method) ==
    IF ~Overridden(visitor, method) THEN <<>>
    ELSE IF method = "VisitProgram" THEN <<"visited program">>
         ELSE <<"visited quantum declaration">>

\* What the method appends to the visitor's visitedNodes.
Records(visitor, method) ==
    IF ~Overridden(visitor, method) THEN <<>>
    ELSE IF method = "VisitProgram" THEN <<"Program">>
         ELSE <<"QuantumDeclaration">>

\* ----------------------------------------------------------------- Walk
\* walk.node is <<>> for a nil node, else <<path>>; walk.todo holds the nodes
\* the traversal has still to visit, next first; walk.invoked lists every
\* method the current Walk invoked on the caller's visitor, with the node and
\* what it returned.  walk.visitedNodes is the field of the caller's
\* mockVisitor: it outlives a Walk, and the next Walk with that visitor appends
\* to it.  walk.before is its value when the current Walk was entered.
IdleWalk ==
    [pc |-> "idle", visitor |-> Plain("BaseVisitor"), tree |-> Program(<<>>),
     node |-> <<>>, todo |-> <<>>, invoked |-> <<>>, visitedNodes |-> <<>>,
     before |-> <<>>, result |-> <<>>]

\* Walk(visitor, node) is entered: a nil node returns nil at once.
Walk(visitor, tree, node) ==
    /\ walk.pc = "idle"
    /\ Len(walk.visitedNodes) < MaxRecorded
    /\ walk' = [IdleWalk EXCEPT !.pc = IF node = <<>> THEN "done" ELSE "visit",
                                !.visitor = visitor, !.tree = tree,
                                !.node = node, !.todo = node,
                                !.visitedNodes = walk.visitedNodes,
                                !.before = walk.visitedNodes]
    /\ UNCHANGED <<build, heap, parsers, held, calls, shown, report, listener, scan, cli>>

\* The node next in turn dispatches to the method of its variant.  A
\* depth-first visitor then continues into the children the node owns.  What
\* the depth-first wrapper itself returns to Walk is not fixed: nil or the
\* result of the inner method.
Visit ==
    /\ walk.pc = "visit"
    /\ LET n == Head(walk.todo)
           inner == walk.visitor.inner
           method == MethodOf(NodeAt(walk.tree, n).variant)
           rest == (IF walk.visitor.depthFirst
                    THEN OwnedChildren(walk.tree, n) ELSE <<>>) \o Tail(walk.todo)
       IN  \E r \in {Returns(inner, method)} \cup
                      (IF walk.visitor.depthFirst THEN {<<>>} ELSE {}) :
               walk' = [walk EXCEPT
                   !.invoked = Append(@, [method |-> method, node |-> n,
                                          returned |-> Returns(inner, method)]),
                   !.visitedNodes = @ \o Records(inner, method),
                   !.result = IF <<n>> = walk.node THEN r ELSE @,
                   !.todo = rest,
                   !.pc = IF rest = <<>> THEN "done" ELSE "visit"]
    /\ UNCHANGED <<build, heap, parsers, held, calls, shown, report, listener, scan, cli>>

\* The caller has its result and may walk again; its mockVisitor keeps what
\* it recorded.
WalkReturns ==
    /\ walk.pc = "done"
    /\ walk' = [IdleWalk EXCEPT !.visitedNodes = walk.visitedNodes,
                                !.before = walk.visitedNodes]
    /\ UNCHANGED <<build, heap, parsers, held, calls, shown, report, listener, scan, cli>>

\* The caller creates its visitors anew: &mockVisitor{visitedNodes: make([]string, 0)}.
NewVisitor ==
    /\ walk.pc = "idle"
    /\ walk.visitedNodes # <<>>
    /\ walk' = IdleWalk
    /\ UNCHANGED <<build, heap, parsers, held, calls, shown, report, listener, scan, cli>>

\* ======================================================================
\* ParseError (package parser: errors.go)
\* ======================================================================
ErrorTypes == {"syntax", "lexical", "semantic"}

Messages == {"unexpected token", "error 1", "error 2"}

Contexts == {"", "gate declaration"}

ParseErrors ==
    {[Type |-> t, Line |-> l, Column |-> c, Message |-> m, Context |-> x] :
        t \in ErrorTypes, l \in 1..MaxLine, c \in 1..MaxColumn,
        m \in Messages, x \in Contexts}

\* Mutant: the context clause is appended whatever Context is.
ErrorAlwaysContext(e) ==
    e.Type \o " error at line " \o ToString(e.Line) \o ", column "
           \o ToString(e.Column) \o ": " \o e.Message
           \o " (context: " \o e.Context \o ")"

\* ParseError.Error()
Error(e) ==
    LET base == e.Type \o " error at line " \o ToString(e.Line) \o ", column "
                       \o ToString(e.Column) \o ": " \o e.Message
    IN  IF e.Context # "" THEN base \o " (context: " \o e.Context \o ")"
        ELSE base

NothingShown == <<>>

\* The caller renders a ParseError.
ShowError(e) ==
    /\ shown' = <<[err |-> e, text |-> Error(e)]>>
    /\ UNCHANGED <<build, heap, parsers, held, calls, walk, report, listener, scan, cli>>

\* ======================================================================
\* ParseResult (package parser: errors.go)
\* ======================================================================
\* The diagnostics of the inspected results: those of TestParseResult and
\* their like.
ReportedErrors ==
    {e \in ParseErrors : /\ e.Line <= 2 /\ e.Column = 1
                         /\ e.Type \in {"syntax", "semantic"}
                         /\ e.Message \in {"error 1", "error 2"}
                         /\ e.Context = ""}

\* The zero value &ParseResult{} is the one with a nil Program and no Errors.
ParseResults ==
    {[Program |-> program, Errors |-> errors] :
        program \in {<<>>, <<convertToAST(<<"\n">>)>>},
        errors \in UNION {[1..n -> ReportedErrors] : n \in 0..MaxReported}}

\* ParseResult.ErrorMessages()
ErrorMessages(result) == [i \in DOMAIN result.Errors |-> Error(result.Errors[i])]

\* ParseResult.String(): the text, line by line.
String(result) ==
    IF ~HasErrors(result) THEN <<"No errors">> ELSE ErrorMessages(result)

NoReport == <<>>

\* The caller inspects a ParseResult through its methods.
Inspect(result) ==
    /\ report = NoReport
    /\ report' = <<[result |-> result, HasErrors |-> HasErrors(result),
                    ErrorMessages |-> ErrorMessages(result),
                    String |-> String(result)]>>
    /\ UNCHANGED <<build, heap, parsers, held, calls, walk, shown, listener, scan, cli>>

\* The caller is done with the result.
Discard ==
    /\ report # NoReport
    /\ report' = NoReport
    /\ UNCHANGED <<build, heap, parsers, held, calls, walk, shown, listener, scan, cli>>

\* ======================================================================
\* An ErrorListener on its own (package parser: errors.go)
\* ======================================================================
\* listener.Errors is what the listener holds; listener.calls lists the
\* SyntaxError calls made on it since it was created.
NewListener == [Errors |-> NewErrorListener, calls |-> <<>>]

\* The recognizer calls listener.SyntaxError(_, _, line, column, msg, _).
ListenerSyntaxError(line, column, msg) ==
    /\ Len(listener.calls) < MaxSyntaxErrors
    /\ listener' = [Errors |-> SyntaxError(listener.Errors, line, column, msg),
                    calls |-> Append(listener.calls,
                                     [line |-> line, column |-> column, msg |-> msg])]
    /\ UNCHANGED <<build, heap, parsers, held, calls, walk, shown, report, scan, cli>>

\* The caller creates a new listener in place of this one.
CreateListener ==
    /\ listener # NewListener
    /\ listener' = NewListener
    /\ UNCHANGED <<build, heap, parsers, held, calls, walk, shown, report, scan, cli>>

\* ------------------------------------------------- the command line
\* A file named on the command line: readErr = "" is a file that os.ReadFile
\* reads, with its text.
FileOf(readErr, text) == [readErr |-> readErr, text |-> text]

Formats == {"text", "tree", "json"}

\* Exit statuses: 0 and 1 as the commands set them, 2 for a Go panic.
Running == -1

PanicStatus == 2

IdleCli ==
    [pc |-> "idle", cmd |-> "none", Format |-> "text", ErrorsOnly |-> FALSE,
     Verbose |-> FALSE, NoRecovery |-> FALSE, Files |-> <<>>, next |-> 1,
     hasErrors |-> FALSE, allResults |-> <<>>, stdout |-> <<>>, stderr |-> <<>>,
     derefNil |-> 0, exit |-> Running]

\* CLI.createParser: the options the flags give, the other flags at their
\* defaults.
CliOptions(c) == OptionsOf(FALSE, TRUE, ~c.NoRecovery, DefaultMaxErrors)

\* CLI.parseFile, with the recognizers present
parseFile(options, filename, file) ==
    IF file.readErr # ""
    THEN [Filename |-> filename, Error |-> <<IOErrorValue(file.readErr)>>,
          ParseResult |-> <<>>]
    ELSE [Filename |-> filename, Error |-> <<>>,
          ParseResult |-> <<ParseWithErrorsResult(options, file.text)>>]

\* The check mark U+2713 of lines 172 and 305, written as its escape: a string
\* of this module holds ASCII only.
CheckMark == "\\u2713"

WithContext(e) ==
    [Type |-> e.Type, Line |-> e.Line, Column |-> e.Column, Message |-> e.Message,
     Context |-> ""]

NumberedErrors(errors) ==
    [i \in DOMAIN errors |->
        "  " \o ToString(i) \o ". " \o Error(WithContext(errors[i]))]

\* CLI.formatParseResult: the lines of the text written for one file.
formatParseResult(format, filename, result) ==
    IF format = "json" THEN <<>>
    ELSE IF result.Error # <<>>
    THEN <<"=== " \o ToString(filename) \o " ===",
           "Error: " \o result.Error[1].IOError>>
    ELSE LET pr == result.ParseResult[1]
         IN  <<"=== " \o ToString(filename) \o " ===">>
             \o (IF HasErrors(pr)
                 THEN <<"Found " \o ToString(Len(pr.Errors)) \o " errors:">>
                          \o NumberedErrors(pr.Errors)
                 ELSE <<CheckMark \o " Parsing successful">>)
             \o <<"Statements: " \o ToString(Len(pr.Program.Statements))>>
             \o (IF pr.Program.Version # <<>>
                 THEN <<"Version: " \o pr.Program.Version[1]>> ELSE <<>>)
             \o (IF Len(pr.Program.Comments) > 0
                 THEN <<"Comments: " \o ToString(Len(pr.Program.Comments))>> ELSE <<>>)
             \o <<"">>

CliPanic(c) == [c EXCEPT !.pc = "exited", !.exit = PanicStatus]

\* The command line names a command, its flags and its files.
RunParse(format, errorsOnly, noRecovery, files) ==
    /\ cli.pc = "idle"
    /\ cli' = [IdleCli EXCEPT !.pc = "loop", !.cmd = "parse", !.Format = format,
                              !.ErrorsOnly = errorsOnly, !.NoRecovery = noRecovery,
                              !.Files = files]
    /\ UNCHANGED <<build, heap, parsers, held, calls, walk, shown, report, listener, scan>>

RunValidate(verbose, noRecovery, files) ==
    /\ cli.pc = "idle"
    /\ cli' = [IdleCli EXCEPT !.pc = "loop", !.cmd = "validate", !.Verbose = verbose,
                              !.NoRecovery = noRecovery, !.Files = files]
    /\ UNCHANGED <<build, heap, parsers, held, calls, walk, shown, report, listener, scan>>

\* One turn of the loop of runParse.  A file that is read is parsed, which
\* panics where the recognizers are placeholders.  ParseResult.HasErrors() on
\* the nil ParseResult of a file that was not read dereferences nil.
RunParseFile ==
    /\ cli.pc = "loop" /\ cli.cmd = "parse"
    /\ cli.next <= Len(cli.Files)
    /\ LET file == cli.Files[cli.next]
       IN  IF file.readErr = "" /\ build = "placeholder"
           THEN cli' = CliPanic(cli)
           ELSE LET result == parseFile(CliOptions(cli), cli.next, file)
                    failed == result.Error # <<>>
                    seen   == [cli EXCEPT
                                  !.allResults = Append(cli.allResults, result),
                                  !.hasErrors = cli.hasErrors \/ failed
                                      \/ HasErrors(result.ParseResult[1])]
                IN  IF cli.ErrorsOnly /\ result.ParseResult = <<>>
                    THEN cli' = CliPanic([seen EXCEPT !.derefNil = cli.next])
                    ELSE IF cli.ErrorsOnly /\ ~HasErrors(result.ParseResult[1]) /\ ~failed
                    THEN cli' = [seen EXCEPT !.next = cli.next + 1]
                    ELSE cli' = [seen EXCEPT
                                    !.stdout = cli.stdout \o
                                        formatParseResult(cli.Format, cli.next, result),
                                    !.next = cli.next + 1]
    /\ UNCHANGED <<build, heap, parsers, held, calls, walk, shown, report, listener, scan>>

\* After the loop of runParse.
RunParseEnd ==
    /\ cli.pc = "loop" /\ cli.cmd = "parse"
    /\ cli.next > Len(cli.Files)
    /\ cli' = IF cli.Format = "json"
              THEN [cli EXCEPT !.pc = "exited", !.exit = 0,
                               !.stdout = cli.stdout \o <<"json">>]
              ELSE [cli EXCEPT !.pc = "exited",
                               !.exit = IF cli.hasErrors THEN 1 ELSE 0]
    /\ UNCHANGED <<build, heap, parsers, held, calls, walk, shown, report, listener, scan>>

\* One turn of the loop of runValidate.
RunValidateFile ==
    /\ cli.pc = "loop" /\ cli.cmd = "validate"
    /\ cli.next <= Len(cli.Files)
    /\ LET file == cli.Files[cli.next]
       IN  IF file.readErr # ""
           THEN cli' = [cli EXCEPT
                           !.stderr = Append(cli.stderr, ToString(cli.next)
                                          \o ": failed to read file: " \o file.readErr),
                           !.hasErrors = TRUE, !.next = cli.next + 1]
           ELSE IF build = "placeholder"
           THEN cli' = CliPanic(cli)
           ELSE LET err == ValidateReturn(
                               ParseWithErrorsResult(CliOptions(cli), file.text)).Err
                IN  IF err # <<>>
                    THEN cli' = [cli EXCEPT
                                    !.stderr = Append(cli.stderr, ToString(cli.next)
                                        \o ": " \o Error(WithContext(err[1].ParseError))),
                                    !.hasErrors = TRUE, !.next = cli.next + 1]
                    ELSE IF cli.Verbose
                    THEN cli' = [cli EXCEPT
                                    !.stdout = Append(cli.stdout,
                                                      ToString(cli.next) \o ": " \o CheckMark
                                                          \o " valid"),
                                    !.next = cli.next + 1]
                    ELSE cli' = [cli EXCEPT !.next = cli.next + 1]
    /\ UNCHANGED <<build, heap, parsers, held, calls, walk, shown, report, listener, scan>>

\* After the loop of runValidate.
RunValidateEnd ==
    /\ cli.pc = "loop" /\ cli.cmd = "validate"
    /\ cli.next > Len(cli.Files)
    /\ cli' = [cli EXCEPT !.pc = "exited", !.exit = IF cli.hasErrors THEN 1 ELSE 0]
    /\ UNCHANGED <<build, heap, parsers, held, calls, walk, shown, report, listener, scan>>

\* ------------------------------------- the facade: one Parser, one call
Texts == TextsUpTo(MaxLen)

Init ==
    /\ build \in {"placeholder", "generated"}
    /\ heap = <<>>
    /\ parsers = <<>>
    /\ held = {}
    /\ calls = [c \in {1} |-> IdleCall]
    /\ walk = IdleWalk
    /\ shown = NothingShown
    /\ report = NoReport
    /\ listener = NewListener
    /\ scan = IdleScan
    /\ cli = IdleCli

\* The caller builds at most one ParseOptions value and then one Parser.
ConstructFrom(values) ==
    /\ parsers = <<>>
    /\ \/ heap = <<>> /\ \E v \in values : AllocOptions(v)
       \/ heap = <<>> /\ NewParser
       \/ \E opts \in held \cup {0} : NewParserWithOptions(opts)

Construct == ConstructFrom(OptionValues)

Call ==
    /\ Free(1)
    /\ \E p \in DOMAIN parsers, text \in Texts :
        \/ ParseWithErrors(1, p, text)
        \/ ParseString(1, p, text)
        \/ Validate(1, p, text)
        \/ \E readErr \in ReadErrors \cup {""} : ParseReader(1, p, text, readErr)
        \/ \E readErr \in ReadErrors \cup {""} : ParseFile(1, p, text, readErr)

Next == Construct \/ Call \/ Step(1) \/ Release(1)

Spec == Init /\ [][Next]_vars

\* --------------------------- one Parser, one call made under a context
ContextTexts == {<<>>, <<"x">>, <<"s", "\r">>, <<"x", "#">>}

CallContext ==
    \E p \in DOMAIN parsers, text \in ContextTexts, ctxErr \in ContextErrors \cup {""} :
        ParseWithContext(1, p, ctxErr, text)

NextContext ==
    \/ Construct
    \/ CallContext
    \/ \E err \in ContextErrors : Cancel(1, err)
    \/ Step(1)
    \/ Release(1)

SpecContext == Init /\ [][NextContext]_vars

\* ------------------------------------------- one run of a CLI command
CliTexts == {<<"s">>, <<"x">>}

CliFiles ==
    {FileOf("ENOENT", <<>>)} \cup {FileOf("", text) : text \in CliTexts}

FileLists == UNION {[1..n -> CliFiles] : n \in 1..MaxFiles}

NextCli ==
    \/ \E format \in Formats, errorsOnly \in BOOLEAN, noRecovery \in BOOLEAN,
          files \in FileLists : RunParse(format, errorsOnly, noRecovery, files)
    \/ \E verbose \in BOOLEAN, noRecovery \in BOOLEAN, files \in FileLists :
           RunValidate(verbose, noRecovery, files)
    \/ RunParseFile
    \/ RunParseEnd
    \/ RunValidateFile
    \/ RunValidateEnd

SpecCli == Init /\ [][NextCli]_vars

\* ------------------------- one Parser, MaxCalls calls running interleaved
ConcTexts == {<<"x", "#">>, <<"#", "\r", "x">>}

ConcOptions ==
    {DefaultParseOptions, OptionsOf(TRUE, FALSE, FALSE, 1),
     OptionsOf(FALSE, TRUE, FALSE, 0)}

InitConc ==
    /\ build \in {"placeholder", "generated"}
    /\ heap = <<>>
    /\ parsers = <<>>
    /\ held = {}
    /\ calls = [c \in 1..MaxCalls |-> IdleCall]
    /\ walk = IdleWalk
    /\ shown = NothingShown
    /\ report = NoReport
    /\ listener = NewListener
    /\ scan = IdleScan
    /\ cli = IdleCli

ConstructConc == ConstructFrom(ConcOptions)

CallConc(c) ==
    /\ Free(c)
    /\ \E p \in DOMAIN parsers, text \in ConcTexts :
        \/ ParseWithErrors(c, p, text)
        \/ ParseString(c, p, text)
        \/ Validate(c, p, text)

NextConc ==
    \/ ConstructConc
    \/ \E c \in 1..MaxCalls : CallConc(c) \/ Step(c) \/ Release(c)

SpecConc == InitConc /\ [][NextConc]_vars

\* ------------------------------ one Parser, one call, texts with comments
CommentTexts ==
    {<<"c">>, <<"s", "c">>, <<"c", "s", "c">>, <<"s">>, <<"c", "\r", "\n">>}

CallComments ==
    /\ Free(1)
    /\ \E p \in DOMAIN parsers, text \in CommentTexts :
        \/ ParseWithErrors(1, p, text)
        \/ ParseString(1, p, text)

NextComments == Construct \/ CallComments \/ Step(1) \/ Release(1)

SpecComments == Init /\ [][NextComments]_vars

\* --------------- NParsers Parsers, NOpts ParseOptions structs, the caller
\* holding pointers to some of them, and parse calls in one slot.  The caller
\* is one goroutine: it constructs, gets, sets and writes between its calls,
\* never while one runs.
ConfigTexts == {<<"x", "#">>}

\* The options of TestNewParserWithOptions, with a cap the text exceeds.
ConfigOptions == {OptionsOf(TRUE, FALSE, FALSE, 1)}

\* The values the caller assigns: every field differs between the two.
WrittenOptions == ConfigOptions \cup {DefaultParseOptions}

InitConfig ==
    /\ build \in {"placeholder", "generated"}
    /\ heap = <<>>
    /\ parsers = <<>>
    /\ held = {}
    /\ calls = [c \in {1} |-> IdleCall]
    /\ walk = IdleWalk
    /\ shown = NothingShown
    /\ report = NoReport
    /\ listener = NewListener
    /\ scan = IdleScan
    /\ cli = IdleCli

Between(c) == Free(c) \/ Ended(c)

NextConfig ==
    \/ Between(1) /\ Len(heap) < NOpts /\ \E v \in ConfigOptions : AllocOptions(v)
    \/ Between(1) /\ Len(heap) < NOpts /\ Len(parsers) < NParsers /\ NewParser
    \/ /\ Between(1)
       /\ Len(parsers) < NParsers
       /\ \E opts \in held \cup {0} :
              (opts = 0 => Len(heap) < NOpts) /\ NewParserWithOptions(opts)
    \/ Between(1) /\ \E p \in DOMAIN parsers : GetOptions(p)
    \/ Between(1) /\ \E p \in DOMAIN parsers, opts \in held \cup {0} :
                         SetOptions(p, opts)
    \/ Between(1) /\ \E opts \in held, value \in WrittenOptions :
                         WriteOptions(opts, value)
    \/ Free(1) /\ \E p \in DOMAIN parsers, text \in ConfigTexts :
                      ParseWithErrors(1, p, text)
    \/ Step(1)
    \/ Release(1)

SpecConfig == InitConfig /\ [][NextConfig]_vars

\* ----------------------------------------- Walk calls over small Programs
NextWalk ==
    \/ \E visitor \in Visitors, tree \in Programs :
           \E node \in {<<>>} \cup {<<path>> : path \in Paths(tree)} :
               \/ Walk(Plain(visitor), tree, node)
               \/ Walk(NewDepthFirstVisitor(visitor), tree, node)
    \/ Visit
    \/ WalkReturns
    \/ NewVisitor

SpecWalk == Init /\ [][NextWalk]_vars

\* ------------------------------------------------ ParseErrors rendered
NextErrors == \E e \in ParseErrors : ShowError(e)

SpecErrors == Init /\ [][NextErrors]_vars

\* ----------------------------------------------- ParseResults inspected
NextResults == (\E result \in ParseResults : Inspect(result)) \/ Discard

SpecResults == Init /\ [][NextResults]_vars

\* --------------------------------------------- one ErrorListener driven
NextListener ==
    \/ \E line \in 1..MaxLine, column \in {1, 5},
          msg \in {"unexpected token", ParserMessage} :
           ListenerSyntaxError(line, column, msg)
    \/ CreateListener

SpecListener == Init /\ [][NextListener]_vars

\* ------------- one Parser, one call, the recognizers run step by step
ScanOptions == {DefaultParseOptions, OptionsOf(FALSE, TRUE, FALSE, 0)}

NextProgress ==
    \/ ConstructFrom(ScanOptions)
    \/ Free(1) /\ \E p \in DOMAIN parsers, text \in TextsUpTo(MaxScanLen) :
                      ParseWithErrors(1, p, text)
    \/ StepByStep(1)
    \/ Release(1)

\* A call that can take a step takes it in the end.
SpecProgress == Init /\ [][NextProgress]_vars /\ WF_vars(StepByStep(1))

\* ------------ one Parser and one call, with a second goroutine that calls
\* SetOptions and writes to the ParseOptions structs while the call runs
RaceTexts == {<<"x", "#">>, <<"x">>}

RaceOptions ==
    {OptionsOf(FALSE, TRUE, FALSE, 1), OptionsOf(FALSE, TRUE, TRUE, 2),
     OptionsOf(FALSE, TRUE, FALSE, -1)}

NextRace ==
    \/ Len(heap) < NOpts /\ \E v \in RaceOptions : AllocOptions(v)
    \/ parsers = <<>> /\ \E opts \in held : NewParserWithOptions(opts)
    \/ Free(1) /\ \E p \in DOMAIN parsers, text \in RaceTexts :
                      ParseWithErrors(1, p, text)
    \/ StepByRead(1)
    \/ \E p \in DOMAIN parsers, opts \in held : SetOptions(p, opts)
    \/ \E opts \in held, value \in RaceOptions \cup {DefaultParseOptions} :
           WriteOptions(opts, value)
    \/ Release(1)

SpecRace == Init /\ [][NextRace]_vars

\* ======================================================================
\* Properties of the facade
\* ======================================================================
CallIds == DOMAIN calls

Returned(c) == calls[c].pc = "done"

Panicked(c) == calls[c].pc = "panicked"

OptionsUsed(c) == Options(calls[c].parser)

\* The untruncated list of a call: what its two listeners hold, merged.
Untruncated(c) == CollectErrors(calls[c].lexerErrors, calls[c].parserErrors)

\* The text has a lexical or a syntactic problem.
Invalid(content) == Problems(content, "#") # <<>> \/ Problems(content, "x") # <<>>

\* e is not after f in the text.
NotAfter(e, f) == e.Line < f.Line \/ (e.Line = f.Line /\ e.Column <= f.Column)

\* C1: ParseWithErrors never fails outright: no call is aborted by a step of
\* the pipeline, and a call that returned holds a non-nil Program.
C1_NeverFailsOutright ==
    \A c \in CallIds :
        calls[c].op = "ParseWithErrors" =>
            /\ ~Panicked(c)
            /\ Returned(c) => calls[c].ret.Program # <<>>

\* C2: with ErrorRecovery enabled, a ParseWithErrors call that returned has
\* at least one diagnostic whenever the text has a syntactic problem, the first
\* of them positioned at the offending token, and Program.Statements is not
\* empty when the text holds a well-formed statement.
C2_RecoveryReportsAndKeeps ==
    \A c \in CallIds :
        (/\ Returned(c)
         /\ calls[c].op = "ParseWithErrors"
         /\ OptionsUsed(c).ErrorRecovery
         /\ Problems(calls[c].content, "x") # <<>>) =>
            /\ calls[c].ret.Errors # <<>>
            /\ \E i \in DOMAIN calls[c].ret.Errors :
                   /\ calls[c].ret.Errors[i].Line = Problems(calls[c].content, "x")[1].Line
                   /\ calls[c].ret.Errors[i].Column = Problems(calls[c].content, "x")[1].Column
            /\ (\E i \in DOMAIN calls[c].content : calls[c].content[i] = "s") =>
                   calls[c].ret.Program[1].Statements # <<>>

\* C3: for MaxErrors = k > 0, a ParseWithErrors call whose untruncated list has
\* m > k diagnostics returns exactly the first k of it, in the same order; for
\* m <= k it returns all m.
C3_CapKeepsPrefix ==
    \A c \in CallIds :
        (Returned(c) /\ calls[c].op = "ParseWithErrors"
                     /\ OptionsUsed(c).MaxErrors > 0) =>
            LET k == OptionsUsed(c).MaxErrors
                u == Untruncated(c)
                e == calls[c].ret.Errors
            IN  /\ Len(u) > k =>
                    /\ Len(e) = k
                    /\ \A i \in 1..k : e[i] = u[i]
                /\ Len(u) <= k => e = u

C3_Witness ==
    \E c \in CallIds :
        /\ Returned(c) /\ calls[c].op = "ParseWithErrors"
        /\ OptionsUsed(c).MaxErrors = 1
        /\ Len(Untruncated(c)) = 2
        /\ Len(calls[c].ret.Errors) = 1

\* C4: the diagnostics a ParseWithErrors call returns are in source order: none
\* is located after one that follows it in the list.
C4_SourceOrder ==
    \A c \in CallIds :
        (Returned(c) /\ calls[c].op = "ParseWithErrors") =>
            \A i, j \in DOMAIN calls[c].ret.Errors :
                i < j => NotAfter(calls[c].ret.Errors[i], calls[c].ret.Errors[j])

\* C5: for MaxErrors <= 0, a ParseWithErrors call returns every diagnostic its
\* listeners collected.
C5_NonPositiveCapIsUnbounded ==
    \A c \in CallIds :
        (Returned(c) /\ calls[c].op = "ParseWithErrors"
                     /\ OptionsUsed(c).MaxErrors <= 0) =>
            calls[c].ret.Errors = Untruncated(c)

C5_Witness ==
    \E c \in CallIds :
        /\ Returned(c) /\ calls[c].op = "ParseWithErrors"
        /\ OptionsUsed(c).MaxErrors = 0
        /\ Len(calls[c].ret.Errors) = 2

\* C6: a ParseString call returns a non-nil error iff ParseWithErrors returns a
\* non-empty list for the same text and options; the error is then the first
\* diagnostic of that list, a syntax-kind ParseError; the built tree is returned
\* either way.
C6_ParseStringFirstDiagnostic ==
    \A c \in CallIds :
        (Returned(c) /\ calls[c].op = "ParseString") =>
            LET r == ParseWithErrorsResult(OptionsUsed(c), calls[c].input)
            IN  /\ calls[c].ret.Err # <<>> <=> r.Errors # <<>>
                /\ r.Errors # <<>> =>
                       /\ calls[c].ret.Err = <<ParseErrorValue(r.Errors[1])>>
                       /\ r.Errors[1].Type = "syntax"
                /\ calls[c].ret.Program = <<r.Program>>

C6_Witness ==
    \E c \in CallIds :
        /\ Returned(c) /\ calls[c].op = "ParseString"
        /\ Len(ParseWithErrorsResult(OptionsUsed(c), calls[c].input).Errors) = 2
        /\ calls[c].ret.Err # <<>>

\* C7: Validate returns no error on a valid text and, for every options value,
\* exactly one error on an invalid text: the first diagnostic ParseWithErrors
\* returns for the same text and options.
C7_ValidateFirstDiagnostic ==
    \A c \in CallIds :
        (Returned(c) /\ calls[c].op = "Validate") =>
            LET r == ParseWithErrorsResult(OptionsUsed(c), calls[c].input)
            IN  /\ ~Invalid(calls[c].content) => calls[c].ret.Err = <<>>
                /\ Invalid(calls[c].content) =>
                       /\ r.Errors # <<>>
                       /\ calls[c].ret.Err = <<ParseErrorValue(r.Errors[1])>>

\* C8: a ParseReader or ParseFile call whose read fails returns a nil Program
\* and the read's error, which is no ParseError, without entering the parsing
\* pipeline (so it never panics there); a call whose read succeeds returns what
\* ParseString returns on the text read.
C8_ReadThenDelegate ==
    \A c \in CallIds :
        calls[c].op \in {"ParseReader", "ParseFile"} =>
            /\ calls[c].readErr # "" =>
                   /\ Returned(c)
                   /\ ~calls[c].started
                   /\ calls[c].ret.Program = <<>>
                   /\ calls[c].ret.Err = <<IOErrorValue(calls[c].readErr)>>
                   /\ \A e \in {calls[c].ret.Err[1]} : DOMAIN e # {"ParseError"}
            /\ (calls[c].readErr = "" /\ Returned(c)) =>
                   calls[c].ret = ParseStringReturn(
                       ParseWithErrorsResult(OptionsUsed(c), calls[c].input))

C8_Witness ==
    \E c \in CallIds :
        /\ Returned(c) /\ calls[c].op = "ParseFile"
        /\ calls[c].readErr = "ENOENT"
        /\ calls[c].ret.Err = <<IOErrorValue("ENOENT")>>

\* What a facade call returns when it runs on its own.
RunAlone(op, options, text) == FacadeReturn(op, ParseWithErrorsResult(options, text))

\* C9: calls interleaved on one Parser each end as they would run alone: a
\* call returns exactly when the recognizers are present, and then returns the
\* result of running alone on its text with the Parser's options.
C9_InterleavedAsAlone ==
    \A c \in CallIds :
        /\ Returned(c) =>
               /\ build = "generated"
               /\ calls[c].ret = RunAlone(calls[c].op, OptionsUsed(c), calls[c].input)
        /\ Panicked(c) => build = "placeholder"

\* Two calls with different texts were in flight together and both returned.
C9_Witness ==
    \E c, d \in CallIds :
        /\ c # d
        /\ Returned(c) /\ calls[c].op = "ParseWithErrors"
        /\ calls[d].pc = "convert" /\ calls[d].op = "ParseWithErrors"
        /\ calls[c].input # calls[d].input
        /\ calls[c].ret.Errors # <<>>
        /\ calls[d].allErrors # calls[c].ret.Errors

\* C10 as claimed: after construction no step changes the option values a
\* Parser's calls use.
C10_ConfigImmutable ==
    [][\A p \in DOMAIN parsers : Options(p)' = Options(p)]_vars

\* C10 as amended: the option values a Parser's calls use change only in a
\* SetOptions step on that Parser with a non-nil argument, or in a write by the
\* caller to the struct that Parser points to; every other step (a step of a
\* parse call included) leaves them as they are.
C10_ConfigChangesOnlyBySetOrWrite ==
    [][\A p \in DOMAIN parsers :
          Options(p)' # Options(p) =>
              \/ \E opts \in held : SetOptions(p, opts)
              \/ \E value \in WrittenOptions :
                     WriteOptions(parsers[p].options, value)]_vars

\* A Parser constructed with DefaultParseOptions() now runs with other values,
\* and a call on it has returned.
C10_Witness ==
    \E p \in DOMAIN parsers :
        /\ parsers[p].defaults
        /\ Options(p) # DefaultParseOptions
        /\ \E c \in CallIds : Returned(c) /\ calls[c].parser = p

\* C11: two ParseWithErrors calls that returned, made with the same text and
\* the same option values, hold equal Programs and equal diagnostics lists,
\* whatever other calls ran on the Parser before, between or beside them.
C11_Deterministic ==
    \A c, d \in CallIds :
        (/\ Returned(c) /\ calls[c].op = "ParseWithErrors"
         /\ Returned(d) /\ calls[d].op = "ParseWithErrors"
         /\ calls[c].input = calls[d].input
         /\ OptionsUsed(c) = OptionsUsed(d)) =>
            /\ calls[c].ret.Program = calls[d].ret.Program
            /\ calls[c].ret.Errors = calls[d].ret.Errors

\* Two calls with the same text returned two diagnostics each.
C11_Witness ==
    \E c, d \in CallIds :
        /\ c # d
        /\ Returned(c) /\ calls[c].op = "ParseWithErrors"
        /\ Returned(d) /\ calls[d].op = "ParseWithErrors"
        /\ calls[c].input = calls[d].input
        /\ Len(calls[c].ret.Errors) = 2
        /\ Len(calls[d].ret.Errors) = 2

\* C12: a ParseWithErrors call on the empty text that returned holds a Program
\* with empty Statements and nil Version, and no diagnostics.
C12_EmptyInput ==
    \A c \in CallIds :
        (Returned(c) /\ calls[c].op = "ParseWithErrors" /\ calls[c].input = <<>>) =>
            /\ calls[c].ret.Program # <<>>
            /\ calls[c].ret.Program[1].Statements = <<>>
            /\ calls[c].ret.Program[1].Version = <<>>
            /\ calls[c].ret.Errors = <<>>

\* The empty text was parsed, as the one line terminator it is normalised to,
\* with listeners attached.
C12_Witness ==
    \E c \in CallIds :
        /\ Returned(c) /\ calls[c].op = "ParseWithErrors"
        /\ calls[c].input = <<>>
        /\ calls[c].content = <<"\n">>
        /\ calls[c].lexerOn /\ calls[c].parserOn
        /\ calls[c].ret.Program # <<>>

\* The statements the recognizers find in a text: its well-formed statement
\* tokens, in source order.
RecognizedStatements(content) == SelectSeq(content, LAMBDA ch : ch = "s")

\* C13: for a text made only of well-formed statements, the Program a
\* ParseWithErrors call returns holds exactly one node per recognized
\* statement.
C13_OneNodePerStatement ==
    \A c \in CallIds :
        (/\ Returned(c) /\ calls[c].op = "ParseWithErrors"
         /\ ~Invalid(calls[c].content)) =>
            Len(calls[c].ret.Program[1].Statements) =
                Len(RecognizedStatements(calls[c].content))

\* The nodes of a Program: the root and the nodes it owns.
Nodes(program) ==
    {program} \cup {program.Statements[i] : i \in DOMAIN program.Statements}
              \cup {program.Comments[i] : i \in DOMAIN program.Comments}

\* C14: every node of the Program a ParseWithErrors call returns, the root
\* included, ends not before it starts: end offset >= start offset, end
\* (line, column) >= start (line, column), lines and columns counted from 1.
C14_SpanInvariant ==
    \A c \in CallIds :
        (Returned(c) /\ calls[c].op = "ParseWithErrors") =>
            \A n \in Nodes(calls[c].ret.Program[1]) :
                /\ n.EndPos.Offset >= n.Position.Offset
                /\ NotAfter(n.Position, n.EndPos)
                /\ n.Position.Line >= 1 /\ n.Position.Column >= 1
                /\ n.EndPos.Line >= 1 /\ n.EndPos.Column >= 1

\* The empty text was parsed: the root of its Program spans the one line
\* terminator of the normalised text.
C14_Witness ==
    \E c \in CallIds :
        /\ Returned(c) /\ calls[c].op = "ParseWithErrors"
        /\ calls[c].input = <<>>
        /\ calls[c].ret.Program[1].Position = [Line |-> 1, Column |-> 1, Offset |-> 0]
        /\ calls[c].ret.Program[1].EndPos = [Line |-> 1, Column |-> 1, Offset |-> 1]

\* The comments of a text, line and block, in source order.
SourceComments(content) == SelectSeq(content, LAMBDA ch : ch = "c")

\* C15: the Program a ParseWithErrors call returns holds every comment of the
\* source in source order when IncludeComments is set, and none when it is not.
C15_CommentsKeptWhenEnabled ==
    \A c \in CallIds :
        (Returned(c) /\ calls[c].op = "ParseWithErrors") =>
            /\ OptionsUsed(c).IncludeComments =>
                   Len(calls[c].ret.Program[1].Comments) =
                       Len(SourceComments(calls[c].content))
            /\ ~OptionsUsed(c).IncludeComments =>
                   calls[c].ret.Program[1].Comments = <<>>

\* C16: DefaultParseOptions is StrictMode = false, IncludeComments = true,
\* ErrorRecovery = true, MaxErrors = 100; a Parser made by NewParser() or by
\* NewParserWithOptions(nil) has non-nil options holding these values, and one
\* made by NewParserWithOptions(opts) has the caller's opts itself as options.
C16_DefaultConfiguration ==
    /\ DefaultParseOptions =
           [StrictMode |-> FALSE, IncludeComments |-> TRUE,
            ErrorRecovery |-> TRUE, MaxErrors |-> 100]
    /\ \A p \in DOMAIN parsers :
           /\ parsers[p].options \in DOMAIN heap
           /\ parsers[p].defaults =>
                  Options(p) =
                      [StrictMode |-> FALSE, IncludeComments |-> TRUE,
                       ErrorRecovery |-> TRUE, MaxErrors |-> 100]
           /\ ~parsers[p].defaults => parsers[p].options \in held

\* NewParserWithOptions(nil) was called by a caller who holds options of
\* other values: the Parser has a struct of its own with the default values.
C16_Witness ==
    /\ held # {}
    /\ \E p \in DOMAIN parsers :
           /\ parsers[p].defaults
           /\ Options(p) = DefaultParseOptions
           /\ \A a \in held : heap[a] = OptionsOf(TRUE, FALSE, FALSE, 2)

\* A text read once from left to right, each line ending taken as one unit: a
\* CR with the LF after it, or a CR alone, is one LF; all else stays.
RECURSIVE OneLFPerLineEnding(_)
OneLFPerLineEnding(s) ==
    IF s = <<>> THEN <<>>
    ELSE IF Head(s) = "\r"
         THEN IF Len(s) >= 2 /\ s[2] = "\n"
              THEN <<"\n">> \o OneLFPerLineEnding(SubSeq(s, 3, Len(s)))
              ELSE <<"\n">> \o OneLFPerLineEnding(Tail(s))
         ELSE <<Head(s)>> \o OneLFPerLineEnding(Tail(s))

\* C17: the text preprocessContent hands to the lexer has no CR; it is the
\* input with every CRLF pair and every lone CR turned into exactly one LF, and
\* one LF appended only when that does not already end with LF; an input with
\* no CR that ends with LF is unchanged; preprocessing it again changes nothing.
C17_NewlineNormalization ==
    \A c \in CallIds :
        calls[c].started =>
            LET text == calls[c].input
                out == calls[c].content
                n == OneLFPerLineEnding(text)
            IN  /\ \A i \in DOMAIN out : out[i] # "\r"
                /\ out # <<>> /\ out[Len(out)] = "\n"
                /\ out = IF n # <<>> /\ n[Len(n)] = "\n" THEN n ELSE n \o <<"\n">>
                /\ ((\A i \in DOMAIN text : text[i] # "\r")
                        /\ text # <<>> /\ text[Len(text)] = "\n") => out = text
                /\ preprocessContent(out) = out

\* A text with a lone CR and a CRLF pair was preprocessed into two LFs.
C17_Witness ==
    \E c \in CallIds :
        /\ calls[c].started
        /\ calls[c].input = <<"\r", "\r", "\n">>
        /\ calls[c].content = <<"\n", "\n">>

\* ======================================================================
\* Properties of the traversal
\* ======================================================================
\* The visitor method that matches each node variant.
MatchingMethod ==
    [Program |-> "VisitProgram",
     QuantumDeclaration |-> "VisitQuantumDeclaration",
     GateCall |-> "VisitGateCall",
     Measurement |-> "VisitMeasurement",
     Identifier |-> "VisitIdentifier"]

\* C18: a Walk with a plain visitor that has returned invoked exactly one
\* method of the visitor, once: the one matching the variant of the node it
\* was given, on that node, and returned what that method returned; on a nil
\* node it invoked nothing and returned nil; with a BaseVisitor the method did
\* nothing and Walk returned nil.
C18_WalkDispatch ==
    (walk.pc = "done" /\ ~walk.visitor.depthFirst) =>
        /\ walk.node = <<>> => (walk.invoked = <<>> /\ walk.result = <<>>)
        /\ walk.node # <<>> =>
               /\ Len(walk.invoked) = 1
               /\ walk.invoked[1].node = walk.node[1]
               /\ walk.invoked[1].method =
                      MatchingMethod[NodeAt(walk.tree, walk.node[1]).variant]
               /\ walk.result = walk.invoked[1].returned
        /\ walk.visitor.inner = "BaseVisitor" =>
               (walk.result = <<>> /\ walk.visitedNodes = walk.before)

\* TestMockVisitor: one mockVisitor walked the Program and then a
\* QuantumDeclaration, here a statement of that Program.
C18_Witness ==
    /\ walk.pc = "done"
    /\ walk.visitor = Plain("mockVisitor")
    /\ walk.node = <<(<<2>>)>>
    /\ NodeAt(walk.tree, <<2>>) = QuantumDeclaration
    /\ walk.result = <<"visited quantum declaration">>
    /\ walk.visitedNodes = <<"Program", "QuantumDeclaration">>

\* p is a proper prefix of q: the node at p is an ancestor of the node at q.
Ancestor(p, q) == Len(p) < Len(q) /\ SubSeq(q, 1, Len(p)) = p

\* p and q are children of one node, p before q in source order.
EarlierSibling(p, q) ==
    /\ Len(p) = Len(q) /\ Len(p) > 0
    /\ SubSeq(p, 1, Len(p) - 1) = SubSeq(q, 1, Len(q) - 1)
    /\ p[Len(p)] < q[Len(q)]

\* C19: a Walk with NewDepthFirstVisitor(inner) that has returned invoked the
\* inner visitor on every node of the tree it was given exactly once, a parent
\* before its children and the children of a node in source order; a Walk
\* with a plain visitor invoked it on the given node only.
C19_DepthFirst ==
    (walk.pc = "done" /\ walk.node # <<>>) =>
        LET start == walk.node[1]
            tree == {start \o q : q \in Paths(NodeAt(walk.tree, start))}
            at(i) == walk.invoked[i].node
        IN  IF walk.visitor.depthFirst
            THEN /\ {at(i) : i \in DOMAIN walk.invoked} = tree
                 /\ Len(walk.invoked) = Cardinality(tree)
                 /\ \A i, j \in DOMAIN walk.invoked :
                        /\ Ancestor(at(i), at(j)) => i < j
                        /\ EarlierSibling(at(i), at(j)) => i < j
            ELSE /\ Len(walk.invoked) = 1
                 /\ at(1) = start

\* A Program of a two-qubit gate call and a measurement was walked depth
\* first from its root: seven nodes.
C19_Witness ==
    /\ walk.pc = "done"
    /\ walk.visitor = NewDepthFirstVisitor("mockVisitor")
    /\ walk.tree = Program(<<GateCall(2), Measurement>>)
    /\ walk.node = <<(<<>>)>>
    /\ Len(walk.invoked) = 7
    /\ walk.invoked[2].node = <<1>>
    /\ walk.invoked[5].node = <<2>>

\* ======================================================================
\* Properties of ParseError
\* ======================================================================
\* C20: the text Error() gives for a ParseError is "<Type> error at line
\* <Line>, column <Column>: <Message>", followed by " (context: <Context>)"
\* exactly when Context is not empty, and by nothing when it is.
C20_ErrorRendering ==
    \A i \in DOMAIN shown :
        LET e == shown[i].err
            text == shown[i].text
            head == e.Type \o " error at line " \o ToString(e.Line)
                           \o ", column " \o ToString(e.Column) \o ": "
                           \o e.Message
        IN  /\ e.Context = "" => text = head
            /\ e.Context # "" => text = head \o " (context: " \o e.Context \o ")"
            /\ (e.Type = "syntax" /\ e.Line = 1 /\ e.Column = 5
                    /\ e.Message = "unexpected token" /\ e.Context = "") =>
                   text = "syntax error at line 1, column 5: unexpected token"

\* The ParseError of TestParseError was rendered, with its context.
C20_Witness ==
    /\ shown # <<>>
    /\ shown[1].err.Context = "gate declaration"
    /\ shown[1].text =
           "syntax error at line 1, column 5: unexpected token (context: gate declaration)"

\* ======================================================================
\* Properties of ParseResult and ErrorListener
\* ======================================================================
\* The text holds the message of e: it is this head, the message, this tail.
HoldsMessageOf(text, e) ==
    text = (e.Type \o " error at line " \o ToString(e.Line) \o ", column "
                   \o ToString(e.Column) \o ": ")
           \o e.Message
           \o (IF e.Context = "" THEN "" ELSE " (context: " \o e.Context \o ")")

\* C21: HasErrors() is true iff the diagnostics list is not empty (false for
\* the zero value); ErrorMessages() gives one message per diagnostic, in the
\* same order; String() is "No errors" exactly when there are no diagnostics
\* and otherwise holds the message of every diagnostic.
C21_ParseResultMethods ==
    \A r \in DOMAIN report :
        LET errors == report[r].result.Errors
            messages == report[r].ErrorMessages
            text == report[r].String
        IN  /\ report[r].HasErrors <=> errors # <<>>
            /\ Len(messages) = Len(errors)
            /\ \A i \in DOMAIN errors : HoldsMessageOf(messages[i], errors[i])
            /\ text = <<"No errors">> <=> errors = <<>>
            /\ \A i \in DOMAIN errors :
                   \E j \in DOMAIN text : HoldsMessageOf(text[j], errors[i])

\* The result of TestParseResult was inspected: "error 1" of type syntax at
\* line 1, "error 2" of type semantic at line 2.
C21_Witness ==
    /\ report # <<>>
    /\ report[1].HasErrors
    /\ report[1].ErrorMessages =
           <<"syntax error at line 1, column 1: error 1",
             "semantic error at line 2, column 1: error 2">>

\* C22: a new listener has no errors; after n SyntaxError calls GetErrors()
\* has exactly n entries in call order, entry i of type "syntax" with the
\* line, column and message of call i, and HasErrors() is true iff n > 0; a
\* later call leaves every entry already recorded in place and unchanged.
C22_ListenerAppendOnly ==
    /\ [](LET errors == GetErrors(listener.Errors)
              n == Len(listener.calls)
          IN  /\ Len(errors) = n
              /\ \A i \in 1..n :
                     errors[i] = [Type |-> "syntax",
                                  Line |-> listener.calls[i].line,
                                  Column |-> listener.calls[i].column,
                                  Message |-> listener.calls[i].msg]
              /\ HasErrors(listener) <=> n > 0)
    /\ [][Len(listener.calls') > Len(listener.calls) =>
              /\ Len(listener.Errors') = Len(listener.Errors) + 1
              /\ \A i \in DOMAIN listener.Errors :
                     listener.Errors'[i] = listener.Errors[i]]_vars

\* The call of TestErrorListener, then another: two entries in call order.
C22_Witness ==
    /\ Len(listener.calls) = 2
    /\ listener.Errors[1] = [Type |-> "syntax", Line |-> 1, Column |-> 5,
                              Message |-> "unexpected token"]
    /\ listener.Errors[2].Line = 2
    /\ listener.Errors[2].Message = ParserMessage

\* ======================================================================
\* Properties of the recognizers
\* ======================================================================
\* C23: a ParseWithErrors call that was entered ends, whatever its text; a
\* lexer step on an unrecognized character moves the lexer's cursor on by at
\* least one character, and a parser step on a malformed statement moves the
\* token cursor on.
C23_Progress ==
    /\ \A c \in {1} : (calls[c].started /\ ~Ended(c)) ~> Ended(c)
    /\ [][(/\ scan.phase = "lex"
           /\ scan.pos <= Len(scan.content)
           /\ scan.content[scan.pos] = "#"
           /\ LexStep) => scan'.pos > scan.pos]_vars
    /\ [][(/\ scan.phase = "parse"
           /\ scan.cursor <= Len(scan.tokens)
           /\ scan.tokens[scan.cursor].ch = "x"
           /\ ParseStep) => scan'.cursor > scan.cursor]_vars

\* A call on a text of an unrecognized character and a malformed statement
\* has returned, both reported.
C23_Witness ==
    /\ Returned(1)
    /\ calls[1].input = <<"#", "x">>
    /\ Len(calls[1].ret.Errors) = 2
    /\ calls[1].ret.Errors =
           ParseWithErrorsResult(OptionsUsed(1), calls[1].input).Errors

\* The malformed statements of a text.
MalformedStatements(content) == SelectSeq(content, LAMBDA ch : ch = "x")

\* C24: with ErrorRecovery enabled, the parser emits at most one diagnostic
\* per malformed statement, a ParseWithErrors call on a text with n malformed
\* statements returns at most n diagnostics, and the well-formed statements
\* of the text, those after a malformed one included, are in its Program.
C24_RecoveryBounded ==
    /\ (scan.phase # "idle" /\ OptionsUsed(scan.call).ErrorRecovery) =>
           scan.emitted <= Len(MalformedStatements(scan.content))
    /\ \A c \in CallIds :
           (/\ Returned(c) /\ calls[c].op = "ParseWithErrors"
            /\ OptionsUsed(c).ErrorRecovery) =>
               /\ Len(calls[c].ret.Errors) <= Len(MalformedStatements(calls[c].content))
               /\ Len(calls[c].ret.Program[1].Statements) =
                      Len(RecognizedStatements(calls[c].content))

\* ======================================================================
\* Properties of the options of a Parser
\* ======================================================================
\* C25: a ParseWithErrors call beside which SetOptions runs uses one options
\* value throughout: its two listeners are both attached or both not, the
\* list it returns is no longer than the cap it tested, and the slice that
\* truncates the list does not fail.
C25_OneOptionsValue ==
    \A c \in CallIds :
        /\ calls[c].pc \in {"parseProgram", "collect", "limit", "limitLen",
                            "slice", "convert", "done"} =>
               calls[c].lexerOn = calls[c].parserOn
        /\ (calls[c].pc \in {"convert", "done"} /\ calls[c].tested > 0) =>
               Len(calls[c].allErrors) <= calls[c].tested
        /\ Panicked(c) => build = "placeholder"

\* C26: a ParseWithContext call whose context is done at the check returns a
\* nil Program and the context's error, with no part of the pipeline run; a
\* call whose context is live at the check returns what ParseString returns
\* on the text, whatever happens to the context afterwards.
C26_ContextCheckedOnce ==
    \A c \in CallIds :
        calls[c].op = "ParseWithContext" =>
            /\ calls[c].ctxErr # "" =>
                   /\ Returned(c)
                   /\ ~calls[c].started
                   /\ calls[c].content = <<>> /\ calls[c].allErrors = <<>>
                   /\ calls[c].ret.Program = <<>>
                   /\ calls[c].ret.Err = <<ContextErrorValue(calls[c].ctxErr)>>
            /\ (calls[c].ctxErr = "" /\ Returned(c)) =>
                   calls[c].ret = ParseStringReturn(
                       ParseWithErrorsResult(OptionsUsed(c), calls[c].input))

\* A call that passed the check, was cancelled while running, and returned
\* the Program and first diagnostic of its text.
C26_Witness ==
    \E c \in CallIds :
        /\ Returned(c) /\ calls[c].op = "ParseWithContext"
        /\ calls[c].ctxErr = "" /\ calls[c].ctx = "context canceled"
        /\ calls[c].ret.Program # <<>>
        /\ calls[c].ret.Err # <<>>

\* C27: SetOptions(nil) leaves a Parser's options as they are; SetOptions(o)
\* with o non-nil makes the Parser point to o, so that GetOptions hands out o
\* and the steps of later calls read o; the pointer a Parser holds is never
\* nil; and no step of a parse call changes a Parser's pointer or any
\* ParseOptions struct.
C27_OptionsFrame ==
    /\ [](\A p \in DOMAIN parsers : parsers[p].options \in DOMAIN heap)
    /\ [][\A p \in DOMAIN parsers :
             /\ SetOptions(p, 0) => parsers'[p].options = parsers[p].options
             /\ \A o \in held :
                    (parsers' # parsers /\ SetOptions(p, o)) => parsers'[p].options = o
             /\ (held' # held /\ GetOptions(p)) => parsers[p].options \in held'
             /\ \A c \in CallIds :
                    (p \in {calls[c].parser, calls'[c].parser} /\ calls'[c] # calls[c]) =>
                        /\ parsers' = parsers /\ heap' = heap
                        /\ (calls[c].pc = "createLexer" /\ calls'[c].pc = "createParser") =>
                               calls'[c].lexerOn = AttachListener(heap[parsers[p].options])
                        /\ (calls[c].pc = "limit" /\ calls'[c].pc = "convert") =>
                               calls'[c].allErrors =
                                   LimitErrors(calls[c].allErrors,
                                               heap[parsers[p].options].MaxErrors)]_vars

\* The one Parser was built with its own default options and now points to a
\* struct of the caller's, its first one dropped (only SetOptions does that);
\* a call on it returned the single diagnostic the new cap of 1 leaves.
C27_Witness ==
    /\ Len(parsers) = 1
    /\ parsers[1].defaults
    /\ parsers[1].options \in held
    /\ DOMAIN heap \ held # {}
    /\ \E c \in CallIds :
           /\ Returned(c) /\ calls[c].parser = 1
           /\ Len(calls[c].ret.Errors) = 1

\* The exact end of a text: the position of offset Len(content), one past the
\* last character, or the position of the last character itself.
EndsOf(content) ==
    {[Line |-> LineOf(content, i), Column |-> ColumnOf(content, i),
      Offset |-> Len(content)] : i \in {Len(content), Len(content) + 1}}

\* C28: the root of the Program a ParseWithErrors call returns starts at line
\* 1, column 1, offset 0 and ends at the offset that is the length of the
\* preprocessed text, with the line and column of the end of that text.
C28_RootSpanExact ==
    \A c \in CallIds :
        (Returned(c) /\ calls[c].op = "ParseWithErrors") =>
            /\ calls[c].ret.Program[1].Position = [Line |-> 1, Column |-> 1, Offset |-> 0]
            /\ calls[c].ret.Program[1].EndPos \in EndsOf(calls[c].content)

\* ------------------------------------------ Properties of the command line
\* The files of the command line the loop has gone through.
Seen == 1..(IF cli.pc = "exited" /\ cli.exit = PanicStatus
            THEN cli.next ELSE cli.next - 1)

\* File i could not be read, or its text has a diagnostic under the options
\* of the command line.
Troubled(i) ==
    \/ cli.Files[i].readErr # ""
    \/ HasErrors(ParseWithErrorsResult(CliOptions(cli), cli.Files[i].text))

\* C29: a run of `parse` that went through all its files exits with status 1
\* when one of them could not be read or had diagnostics, and with status 0
\* only when none did, whatever the output format.
C29_ParseExitStatus ==
    (cli.pc = "exited" /\ cli.cmd = "parse" /\ cli.exit # PanicStatus) =>
        /\ (\E i \in DOMAIN cli.Files : Troubled(i)) => cli.exit = 1
        /\ cli.exit = 0 => \A i \in DOMAIN cli.Files : ~Troubled(i)

\* C30: in a run of `parse`, no ParseResult of an unread file is dereferenced,
\* and every unread file the loop has gone through has its failure recorded
\* and its read error written, the loop going on to the next file.
C30_UnreadFileHandled ==
    cli.cmd = "parse" =>
        /\ cli.derefNil = 0
        /\ \A i \in Seen \cap DOMAIN cli.Files :
               cli.Files[i].readErr # "" =>
                   /\ cli.hasErrors
                   /\ cli.next > i
                   /\ cli.Format # "json" =>
                          \E k \in DOMAIN cli.stdout :
                              cli.stdout[k] = "Error: " \o cli.Files[i].readErr

====
